---- MODULE Spec2Model ----
(***************************************************************************)
(* A model of the Ball-Game simulation core (src/src/main.rs): the Bevy    *)
(* app with its Startup systems (spawn_player, spawn_enemies, spawn_stars) *)
(* and its Update systems (spawn_camera, player_movement,                  *)
(* confine_player_movement, enemy_movement, update_enemy_direction,        *)
(* confine_enemy_movement, enemy_hit_player, player_hit_star).             *)
(*                                                                         *)
(* Numbers.  f32 quantities are fixed-point integers: positions and window *)
(* sizes are whole pixels, fractions (random draws, direction components)  *)
(* are multiples of 1/FixedOne, and a frame's delta time is a number of    *)
(* ticks of 1/DtDen second.  Products are truncated towards zero.          *)
(*                                                                         *)
(* Scheduling.  main registers both groups of systems as plain tuples,     *)
(* with no .chain() and no before/after constraint, so the engine may run  *)
(* the systems of a schedule in any order; each runs once per schedule     *)
(* run.  Commands are buffered per system and applied when the schedule    *)
(* run has finished.                                                       *)
(***************************************************************************)
EXTENDS Integers, Sequences, FiniteSets, TLC

\* ------------------------------------------------------------ constants
PLAYER_SPEED == 500
PLAYER_SIZE == 64
NUMBER_OF_ENEMIES == 4
ENEMY_SPEED == 200
ENEMY_SIZE == 64
NUMBER_OF_STARS == 10
STAR_SIZE == 30

\* ------------------------------------------------------------ bounds
\* Game time explored, in ticks of 1/DtDen second: the frame deltas of a run
\* add up to at most MaxTicks.
MaxTicks == 2
\* Window resizes explored in one run.
MaxResizes == 1
\* Ticks per second of the frame clock.
DtDen == 20
\* Fixed-point resolution of a fraction (1.0 = FixedOne).
FixedOne == 1000

\* ------------------------------------------------------------ arithmetic
Abs(n) == IF n < 0 THEN -n ELSE n

Sign(n) == IF n < 0 THEN -1 ELSE IF n > 0 THEN 1 ELSE 0

\* Truncating division of a signed numerator by a positive denominator.
TruncDiv(n, d) == Sign(n) * (Abs(n) \div d)

RECURSIVE ISqrtSearch(_, _, _)
ISqrtSearch(n, lo, hi) ==
    IF lo >= hi THEN lo
    ELSE LET mid == (lo + hi + 1) \div 2
         IN  IF mid * mid <= n THEN ISqrtSearch(n, mid, hi)
                               ELSE ISqrtSearch(n, lo, mid - 1)

\* Floor of the square root.
ISqrt(n) == ISqrtSearch(n, 0, IF n < 40000 THEN n ELSE 40000)

\* Vec2/Vec3 length of a fixed-point vector (z is always 0).
Length(a, b) == ISqrt(a * a + b * b)

\* Vec2::normalize / Vec3::normalize on a fixed-point vector of non-zero length.
Normalize(a, b) ==
    LET len == Length(a, b)
    IN  <<TruncDiv(a * FixedOne, len), TruncDiv(b * FixedOne, len)>>

\* direction * speed * delta_seconds for one component, in pixels.
Displacement(d, speed, ticks) == TruncDiv(d * speed * ticks, FixedOne * DtDen)

\* ------------------------------------------------------------ window
\* The primary window's (width, height), in pixels.
WindowSizes ==
    { [width |-> 320, height |-> 240],
      [width |-> 240, height |-> 200],
      [width |-> 320, height |-> 48] }

InitialWindow == [width |-> 320, height |-> 240]

\* ------------------------------------------------------------ input
KeyCodes == {"Left", "A", "Right", "D", "Up", "W", "Down", "S"}

\* The keyboard states a frame is run with: nothing pressed, a diagonal on the
\* alternate keys, and opposite keys held together.
KeyboardStates ==
    { {}, {"A", "W"}, {"Left", "D"}, {"Up", "S"},
      {"Left", "Right", "W", "Down"} }

\* The frame deltas a frame is run with, in ticks.
DtSet == 1 .. MaxTicks

\* ------------------------------------------------------------ random source
\* random::<f32>() draws in [0, 1), as numerators over FixedOne, in the order
\* the spawn system makes them: x, y, direction.x, direction.y per enemy and
\* x, y per star.
RandomStreams ==
    { [ enemies |-> << 0, 0, 600, 800,      938, 42, 800, 600,
                       50, 938, 500, 0,     750, 500, 0, 500 >>,
        stars   |-> << 500, 500,  563, 563,  647, 500,  625, 625,  63, 63,
                       938, 834,  125, 834,  875, 125,  313, 84,   188, 500 >> ],
      [ enemies |-> << 500, 625, 600, 800,  407, 500, 800, 600,
                       0, 0, 500, 500,      969, 959, 280, 960 >>,
        stars   |-> << 500, 500,  594, 500,  63, 63,    938, 834,  125, 834,
                       875, 125,  313, 84,   188, 500,  700, 900,  400, 50 >> ] }

\* ------------------------------------------------------------ state
VARIABLES
    phase,      \* "startup", "idle" (between frames) or "update"
    ran,        \* the systems that have run in the current schedule run
    world,      \* entity id -> [kind, x, y, dx, dy], the live entities
    nextId,     \* the next fresh entity id
    cmds,       \* system -> its buffered commands
    window,     \* the primary window's size
    dt,         \* Time::delta_seconds of the current frame, in ticks
    rng,        \* the draws random::<f32>() will return
    frame,      \* update frames started
    elapsed,    \* game time so far, in ticks
    resizes,    \* window resizes so far
    gameOver,   \* "Enemy hit player! Game over!" lines printed
    starHit,    \* "Player hit star!" lines printed
    keyboard,   \* the keys held during the run, when they are fixed up front
    panicked,   \* a system has panicked: the program is terminated
    outward     \* during a frame: the <<enemy, axis>> pairs that ended the
                \* frame before on or beyond a bound, pointing out of the window

vars == <<phase, ran, world, nextId, cmds, window, dt, rng, frame, elapsed, resizes,
          gameOver, starHit, keyboard, panicked, outward>>

StartupSystems == {"spawn_player", "spawn_enemies", "spawn_stars"}

\* Mutant of UpdateSystems: spawn_player registered under Update as well, the
\* way spawn_camera is.
UpdateSystemsWithPlayerSpawn ==
    {"spawn_player", "spawn_camera", "player_movement", "confine_player_movement",
     "enemy_movement", "update_enemy_direction", "confine_enemy_movement",
     "enemy_hit_player", "player_hit_star"}

UpdateSystems ==
    {"spawn_camera", "player_movement", "confine_player_movement",
     "enemy_movement", "update_enemy_direction", "confine_enemy_movement",
     "enemy_hit_player", "player_hit_star"}

\* The order in which the buffers are applied (the tuples' order).
SystemOrder ==
    << "spawn_player", "spawn_enemies", "spawn_stars", "spawn_camera",
       "player_movement", "confine_player_movement", "enemy_movement",
       "update_enemy_direction", "confine_enemy_movement",
       "enemy_hit_player", "player_hit_star" >>

Schedule(p) ==
    IF p = "startup" THEN StartupSystems
    ELSE IF p = "update" THEN UpdateSystems
    ELSE {}

\* ------------------------------------------------------------ entities
Entity(k, px, py, vx, vy) == [kind |-> k, x |-> px, y |-> py, dx |-> vx, dy |-> vy]

NoEntity == Entity("none", 0, 0, 0, 0)

SpawnCmd(e) == [op |-> "spawn", id |-> 0, ent |-> e]

DespawnCmd(i) == [op |-> "despawn", id |-> i, ent |-> NoEntity]

\* Query<..., With<K>>: the ids of the live entities of kind k.
Ids(w, k) == {i \in DOMAIN w : w[i].kind = k}

Players(w) == Ids(w, "player")
Enemies(w) == Ids(w, "enemy")
Stars(w) == Ids(w, "star")
Cameras(w) == Ids(w, "camera")

\* Query::get_single succeeds iff exactly one entity matches.
HasSinglePlayer(w) == Cardinality(Players(w)) = 1

ThePlayer(w) == CHOOSE i \in Players(w) : TRUE

\* The ids of a set in iteration (ascending) order.
RECURSIVE InOrder(_)
InOrder(S) ==
    IF S = {} THEN <<>>
    ELSE LET m == CHOOSE i \in S : \A j \in S : i <= j
         IN  <<m>> \o InOrder(S \ {m})

\* ------------------------------------------------------------ spawners
\* random::<f32>() * window.width(), and the same for the height.
RandomX(r, win) == (r * win.width) \div FixedOne

RandomY(r, win) == (r * win.height) \div FixedOne

\* Mutant of PlayerSpawn: the Transform is left at its default, the origin.
PlayerSpawnAtOrigin(win) ==
    << SpawnCmd(Entity("player", 0, 0, 0, 0)) >>

\* spawn_player's one command: a player at the window's centre.
PlayerSpawn(win) ==
    << SpawnCmd(Entity("player", win.width \div 2, win.height \div 2, 0, 0)) >>

\* spawn_camera's one command: a camera at the window's centre.
CameraSpawn(win) ==
    << SpawnCmd(Entity("camera", win.width \div 2, win.height \div 2, 0, 0)) >>

\* spawn_enemies' commands: NUMBER_OF_ENEMIES enemies, four draws each.
EnemySpawns(win, draws) ==
    [ i \in 1 .. NUMBER_OF_ENEMIES |->
        LET b == 4 * (i - 1)
            dir == Normalize(draws[b + 3], draws[b + 4])
        IN  SpawnCmd(Entity("enemy", RandomX(draws[b + 1], win),
                            RandomY(draws[b + 2], win), dir[1], dir[2])) ]

\* spawn_stars' commands: NUMBER_OF_STARS stars, two draws each.
StarSpawns(win, draws) ==
    [ i \in 1 .. NUMBER_OF_STARS |->
        LET b == 2 * (i - 1)
        IN  SpawnCmd(Entity("star", RandomX(draws[b + 1], win),
                            RandomY(draws[b + 2], win), 0, 0)) ]

\* ------------------------------------------------------------ commands
\* One buffered command applied to the world: a spawn takes a fresh id, a
\* despawn removes the entity if it is (still) live.
ApplyCommand(st, c) ==
    IF c.op = "spawn"
    THEN [ world  |-> [ i \in DOMAIN st.world \cup {st.nextId} |->
                          IF i = st.nextId THEN c.ent ELSE st.world[i] ],
           nextId |-> st.nextId + 1 ]
    ELSE [ world  |-> [ i \in DOMAIN st.world \ {c.id} |-> st.world[i] ],
           nextId |-> st.nextId ]

RECURSIVE ApplyCommands(_, _)
ApplyCommands(st, cs) ==
    IF cs = <<>> THEN st
    ELSE ApplyCommands(ApplyCommand(st, Head(cs)), Tail(cs))

\* The buffers of all systems, in the order they are applied.
RECURSIVE AllCommands(_, _)
AllCommands(c, order) ==
    IF order = <<>> THEN <<>>
    ELSE c[Head(order)] \o AllCommands(c, Tail(order))

NoCommands == [s \in StartupSystems \cup UpdateSystems |-> <<>>]

\* ------------------------------------------------------------ movement
Pressed(keys, k1, k2) == k1 \in keys \/ k2 \in keys

\* Mutant of PlayerDirection: the sequential ifs are else-if chains, so of two
\* opposite directions only the first one counts.
PlayerDirectionElseIf(keys) ==
    LET sx == IF Pressed(keys, "Left", "A") THEN -FixedOne
              ELSE IF Pressed(keys, "Right", "D") THEN FixedOne ELSE 0
        sy == IF Pressed(keys, "Up", "W") THEN FixedOne
              ELSE IF Pressed(keys, "Down", "S") THEN -FixedOne ELSE 0
    IN  IF Length(sx, sy) > 0 THEN Normalize(sx, sy) ELSE <<sx, sy>>

\* The direction player_movement computes from the keyboard state.
PlayerDirection(keys) ==
    LET sx == (IF Pressed(keys, "Left", "A") THEN -FixedOne ELSE 0)
              + (IF Pressed(keys, "Right", "D") THEN FixedOne ELSE 0)
        sy == (IF Pressed(keys, "Up", "W") THEN FixedOne ELSE 0)
              + (IF Pressed(keys, "Down", "S") THEN -FixedOne ELSE 0)
    IN  IF Length(sx, sy) > 0 THEN Normalize(sx, sy) ELSE <<sx, sy>>

\* player_movement's effect on the world.
MovePlayer(w, keys, ticks) ==
    IF HasSinglePlayer(w)
    THEN LET p == ThePlayer(w)
             dir == PlayerDirection(keys)
         IN  [w EXCEPT ![p].x = @ + Displacement(dir[1], PLAYER_SPEED, ticks),
                       ![p].y = @ + Displacement(dir[2], PLAYER_SPEED, ticks)]
    ELSE w

\* Mutant of MoveEnemies: the enemies stop once there is no player.
MoveEnemiesWhilePlayer(w, ticks) ==
    [ i \in DOMAIN w |->
        IF w[i].kind = "enemy" /\ HasSinglePlayer(w)
        THEN [w[i] EXCEPT !.x = @ + Displacement(w[i].dx, ENEMY_SPEED, ticks),
                          !.y = @ + Displacement(w[i].dy, ENEMY_SPEED, ticks)]
        ELSE w[i] ]

\* enemy_movement's effect on the world.
MoveEnemies(w, ticks) ==
    [ i \in DOMAIN w |->
        IF w[i].kind = "enemy"
        THEN [w[i] EXCEPT !.x = @ + Displacement(w[i].dx, ENEMY_SPEED, ticks),
                          !.y = @ + Displacement(w[i].dy, ENEMY_SPEED, ticks)]
        ELSE w[i] ]

\* ------------------------------------------------------------ confinement
\* Mutant of Clamp: the else-if branch for the upper bound is missing.
ClampLowerOnly(v, lo, hi) == IF v < lo THEN lo ELSE v

\* Mutant of Clamp: min wins when the range is empty (min > max).
ClampMinWins(v, lo, hi) ==
    IF hi < lo THEN lo ELSE IF v < lo THEN lo ELSE IF v > hi THEN hi ELSE v

\* The if / else-if that bounds one coordinate.
Clamp(v, lo, hi) == IF v < lo THEN lo ELSE IF v > hi THEN hi ELSE v

XMin(size) == 0 + size \div 2
XMax(win, size) == win.width - size \div 2
YMin(size) == 0 + size \div 2
YMax(win, size) == win.height - size \div 2

\* confine_player_movement's effect on the world.
ConfinePlayer(w, win) ==
    IF HasSinglePlayer(w)
    THEN LET p == ThePlayer(w)
         IN  [w EXCEPT
                ![p].x = Clamp(@, XMin(PLAYER_SIZE), XMax(win, PLAYER_SIZE)),
                ![p].y = Clamp(@, YMin(PLAYER_SIZE), YMax(win, PLAYER_SIZE))]
    ELSE w

\* confine_enemy_movement's effect on the world.
ConfineEnemies(w, win) ==
    [ i \in DOMAIN w |->
        IF w[i].kind = "enemy"
        THEN [w[i] EXCEPT
                !.x = Clamp(@, XMin(ENEMY_SIZE), XMax(win, ENEMY_SIZE)),
                !.y = Clamp(@, YMin(ENEMY_SIZE), YMax(win, ENEMY_SIZE))]
        ELSE w[i] ]

\* Mutant of OutOfBounds: the comparisons are not strict.
OutOfBoundsInclusive(v, lo, hi) == v <= lo \/ v >= hi

\* Whether a coordinate is outside [lo, hi].
OutOfBounds(v, lo, hi) == v < lo \/ v > hi

\* Mutant of ReflectEnemies: the component is set to -1.0 instead of being
\* multiplied by it.
ReflectEnemiesAssign(w, win) ==
    [ i \in DOMAIN w |->
        IF w[i].kind = "enemy"
        THEN [w[i] EXCEPT
                !.dx = IF OutOfBounds(w[i].x, XMin(ENEMY_SIZE), XMax(win, ENEMY_SIZE))
                       THEN -FixedOne ELSE @,
                !.dy = IF OutOfBounds(w[i].y, YMin(ENEMY_SIZE), YMax(win, ENEMY_SIZE))
                       THEN -FixedOne ELSE @]
        ELSE w[i] ]

\* update_enemy_direction's effect on the world.
ReflectEnemies(w, win) ==
    [ i \in DOMAIN w |->
        IF w[i].kind = "enemy"
        THEN [w[i] EXCEPT
                !.dx = IF OutOfBounds(w[i].x, XMin(ENEMY_SIZE), XMax(win, ENEMY_SIZE))
                       THEN @ * (-1) ELSE @,
                !.dy = IF OutOfBounds(w[i].y, YMin(ENEMY_SIZE), YMax(win, ENEMY_SIZE))
                       THEN @ * (-1) ELSE @]
        ELSE w[i] ]

\* ------------------------------------------------------------ collisions
DistanceSq(a, b) == (a.x - b.x) * (a.x - b.x) + (a.y - b.y) * (a.y - b.y)

\* a.translation.distance(b.translation) < r, on whole-pixel positions.
DistanceLess(a, b, r) == DistanceSq(a, b) < r * r

\* The ids of `ids`, in iteration order, whose entity is nearer than r to p.
RECURSIVE Hits(_, _, _, _)
Hits(w, p, order, r) ==
    IF order = <<>> THEN <<>>
    ELSE (IF DistanceLess(w[p], w[Head(order)], r) THEN <<Head(order)>> ELSE <<>>)
         \o Hits(w, p, Tail(order), r)

\* The enemies for which enemy_hit_player's loop body takes its if-branch.
EnemyHits(w) ==
    IF HasSinglePlayer(w)
    THEN Hits(w, ThePlayer(w), InOrder(Enemies(w)),
              PLAYER_SIZE \div 2 + ENEMY_SIZE \div 2)
    ELSE <<>>

\* Mutant of EnemyHitCommands: the enemy that hit is despawned with the player.
EnemyHitCommandsBoth(w) ==
    [ k \in 1 .. 2 * Len(EnemyHits(w)) |->
        IF k <= Len(EnemyHits(w)) THEN DespawnCmd(ThePlayer(w))
        ELSE DespawnCmd(EnemyHits(w)[k - Len(EnemyHits(w))]) ]

\* enemy_hit_player's commands: one despawn of the player per hit.
EnemyHitCommands(w) ==
    [ k \in 1 .. Len(EnemyHits(w)) |-> DespawnCmd(ThePlayer(w)) ]

\* Mutant of StarHits: the loop breaks after the first hit star.
StarHitsFirstOnly(w) ==
    IF HasSinglePlayer(w)
    THEN LET h == Hits(w, ThePlayer(w), InOrder(Stars(w)),
                       PLAYER_SIZE \div 2 + STAR_SIZE \div 2)
         IN  IF h = <<>> THEN <<>> ELSE <<Head(h)>>
    ELSE <<>>

\* The stars for which player_hit_star's loop body takes its if-branch.
StarHits(w) ==
    IF HasSinglePlayer(w)
    THEN Hits(w, ThePlayer(w), InOrder(Stars(w)),
              PLAYER_SIZE \div 2 + STAR_SIZE \div 2)
    ELSE <<>>

\* Mutant of StarHitCommands: a collected star is respawned at the origin.
StarHitCommandsRespawn(w) ==
    [ k \in 1 .. 2 * Len(StarHits(w)) |->
        IF k <= Len(StarHits(w)) THEN DespawnCmd(StarHits(w)[k])
        ELSE SpawnCmd(Entity("star", 0, 0, 0, 0)) ]

\* player_hit_star's commands: one despawn per hit star.
StarHitCommands(w) ==
    [ k \in 1 .. Len(StarHits(w)) |-> DespawnCmd(StarHits(w)[k]) ]

\* ------------------------------------------------------------ actions
\* window_query.get_single() finds no primary window.
NoWindow == [width |-> -1, height |-> -1]

WindowExists(win) == win # NoWindow

\* The keyboard state is not fixed up front: each read may see any of
\* KeyboardStates.
AnyKeyboard == [fixed |-> FALSE, pressed |-> {}]

\* Every keyboard state over the eight keys player_movement reads.
FixedKeyboards == {[fixed |-> TRUE, pressed |-> k] : k \in SUBSET KeyCodes}

\* The keyboard states a read of Res<Input<KeyCode>> may return.
KeysRead == IF keyboard.fixed THEN {keyboard.pressed} ELSE KeyboardStates

\* The <<enemy, axis>> pairs on or beyond a bound of the enemy range with the
\* direction component pointing out of the window.
Outward(w, win) ==
    {<<i, "x">> : i \in {j \in Enemies(w) :
        \/ w[j].x <= XMin(ENEMY_SIZE) /\ w[j].dx < 0
        \/ w[j].x >= XMax(win, ENEMY_SIZE) /\ w[j].dx > 0}}
    \cup
    {<<i, "y">> : i \in {j \in Enemies(w) :
        \/ w[j].y <= YMin(ENEMY_SIZE) /\ w[j].dy < 0
        \/ w[j].y >= YMax(win, ENEMY_SIZE) /\ w[j].dy > 0}}

\* The state before the Startup schedule runs, but for window and keyboard.
Boot ==
    /\ phase = "startup"
    /\ ran = {}
    /\ world = << >>
    /\ nextId = 1
    /\ cmds = NoCommands
    /\ dt = 0
    /\ rng \in RandomStreams
    /\ frame = 0
    /\ elapsed = 0
    /\ resizes = 0
    /\ gameOver = 0
    /\ starHit = 0
    /\ panicked = FALSE
    /\ outward = {}

Init ==
    /\ Boot
    /\ window = InitialWindow
    /\ keyboard = AnyKeyboard

\* System s may run now: the program is alive, s is in the running schedule
\* and has not run yet.
Ready(s) == ~panicked /\ s \in Schedule(phase) /\ s \notin ran

\* System s has run and buffered the commands cs.
Done(s, cs) ==
    /\ ran' = ran \cup {s}
    /\ cmds' = [cmds EXCEPT ![s] = cs]
    /\ UNCHANGED <<phase, nextId, window, dt, frame, elapsed, resizes,
                   keyboard, panicked, outward>>

\* System s has panicked on unwrap(): the program is terminated.
Panic(s) ==
    /\ ran' = ran \cup {s}
    /\ panicked' = TRUE
    /\ UNCHANGED <<phase, world, nextId, cmds, window, dt, rng, frame, elapsed,
                   resizes, gameOver, starHit, keyboard, outward>>

spawn_player ==
    /\ Ready("spawn_player")
    /\ IF WindowExists(window)
       THEN /\ Done("spawn_player", PlayerSpawn(window))
            /\ UNCHANGED <<world, rng, gameOver, starHit>>
       ELSE Panic("spawn_player")

spawn_enemies ==
    /\ Ready("spawn_enemies")
    /\ IF WindowExists(window)
       THEN /\ Done("spawn_enemies", EnemySpawns(window, rng.enemies))
            /\ rng' = [rng EXCEPT !.enemies = <<>>]
            /\ UNCHANGED <<world, gameOver, starHit>>
       ELSE Panic("spawn_enemies")

spawn_stars ==
    /\ Ready("spawn_stars")
    /\ IF WindowExists(window)
       THEN /\ Done("spawn_stars", StarSpawns(window, rng.stars))
            /\ rng' = [rng EXCEPT !.stars = <<>>]
            /\ UNCHANGED <<world, gameOver, starHit>>
       ELSE Panic("spawn_stars")

spawn_camera ==
    /\ Ready("spawn_camera")
    /\ IF WindowExists(window)
       THEN /\ Done("spawn_camera", CameraSpawn(window))
            /\ UNCHANGED <<world, rng, gameOver, starHit>>
       ELSE Panic("spawn_camera")

player_movement ==
    /\ Ready("player_movement")
    /\ \E keys \in KeysRead : world' = MovePlayer(world, keys, dt)
    /\ Done("player_movement", <<>>)
    /\ UNCHANGED <<rng, gameOver, starHit>>

\* Mutant of confine_player_movement: the window is unwrapped before the
\* player is looked up.
confine_player_movement_window_first ==
    /\ Ready("confine_player_movement")
    /\ IF WindowExists(window)
       THEN /\ world' = ConfinePlayer(world, window)
            /\ Done("confine_player_movement", <<>>)
            /\ UNCHANGED <<rng, gameOver, starHit>>
       ELSE Panic("confine_player_movement")

\* The window is unwrapped inside the if-let on the player.
confine_player_movement ==
    /\ Ready("confine_player_movement")
    /\ IF HasSinglePlayer(world) /\ ~WindowExists(window)
       THEN Panic("confine_player_movement")
       ELSE /\ world' = ConfinePlayer(world, window)
            /\ Done("confine_player_movement", <<>>)
            /\ UNCHANGED <<rng, gameOver, starHit>>

enemy_movement ==
    /\ Ready("enemy_movement")
    /\ world' = MoveEnemies(world, dt)
    /\ Done("enemy_movement", <<>>)
    /\ UNCHANGED <<rng, gameOver, starHit>>

update_enemy_direction ==
    /\ Ready("update_enemy_direction")
    /\ IF WindowExists(window)
       THEN /\ world' = ReflectEnemies(world, window)
            /\ Done("update_enemy_direction", <<>>)
            /\ UNCHANGED <<rng, gameOver, starHit>>
       ELSE Panic("update_enemy_direction")

confine_enemy_movement ==
    /\ Ready("confine_enemy_movement")
    /\ IF WindowExists(window)
       THEN /\ world' = ConfineEnemies(world, window)
            /\ Done("confine_enemy_movement", <<>>)
            /\ UNCHANGED <<rng, gameOver, starHit>>
       ELSE Panic("confine_enemy_movement")

\* Mutant of enemy_hit_player: the player is removed from the world at once
\* instead of through a buffered command.
enemy_hit_player_immediate ==
    /\ Ready("enemy_hit_player")
    /\ Done("enemy_hit_player", <<>>)
    /\ world' = IF EnemyHits(world) = <<>> THEN world
                ELSE [i \in DOMAIN world \ {ThePlayer(world)} |-> world[i]]
    /\ gameOver' = gameOver + Len(EnemyHits(world))
    /\ UNCHANGED <<rng, starHit>>

enemy_hit_player ==
    /\ Ready("enemy_hit_player")
    /\ Done("enemy_hit_player", EnemyHitCommands(world))
    /\ gameOver' = gameOver + Len(EnemyHits(world))
    /\ UNCHANGED <<world, rng, starHit>>

player_hit_star ==
    /\ Ready("player_hit_star")
    /\ Done("player_hit_star", StarHitCommands(world))
    /\ starHit' = starHit + Len(StarHits(world))
    /\ UNCHANGED <<world, rng, gameOver>>

\* The schedule run is complete: its buffered commands are applied.
ApplyDeferred ==
    /\ ~panicked
    /\ phase \in {"startup", "update"}
    /\ ran = Schedule(phase)
    /\ LET st == ApplyCommands([world |-> world, nextId |-> nextId],
                               AllCommands(cmds, SystemOrder))
       IN  /\ world' = st.world
           /\ nextId' = st.nextId
    /\ cmds' = NoCommands
    /\ ran' = {}
    /\ phase' = "idle"
    /\ outward' = {}
    /\ UNCHANGED <<window, dt, rng, frame, elapsed, resizes, gameOver, starHit,
                   keyboard, panicked>>

\* The engine starts the next frame, with that frame's delta time.
BeginFrame ==
    /\ ~panicked
    /\ phase = "idle"
    /\ \E d \in DtSet :
         /\ elapsed + d <= MaxTicks
         /\ dt' = d
         /\ elapsed' = elapsed + d
    /\ frame' = frame + 1
    /\ phase' = "update"
    /\ outward' = IF frame = 0 THEN {} ELSE Outward(world, window)
    /\ UNCHANGED <<ran, world, nextId, cmds, window, rng, resizes, gameOver, starHit,
                   keyboard, panicked>>

\* The user resizes the window between two update frames.
Resize ==
    /\ ~panicked
    /\ phase = "idle"
    /\ frame >= 1
    /\ resizes < MaxResizes
    /\ WindowExists(window)
    /\ \E w \in WindowSizes \ {window} : window' = w
    /\ resizes' = resizes + 1
    /\ UNCHANGED <<phase, ran, world, nextId, cmds, dt, rng, frame, elapsed, gameOver,
                   starHit, keyboard, panicked, outward>>

\* The primary window goes away between two schedule runs.
CloseWindow ==
    /\ ~panicked
    /\ phase = "idle"
    /\ WindowExists(window)
    /\ window' = NoWindow
    /\ UNCHANGED <<phase, ran, world, nextId, cmds, dt, rng, frame, elapsed, resizes,
                   gameOver, starHit, keyboard, panicked, outward>>

Next ==
    \/ spawn_player
    \/ spawn_enemies
    \/ spawn_stars
    \/ spawn_camera
    \/ player_movement
    \/ confine_player_movement
    \/ enemy_movement
    \/ update_enemy_direction
    \/ confine_enemy_movement
    \/ enemy_hit_player
    \/ player_hit_star
    \/ ApplyDeferred
    \/ BeginFrame
    \/ Resize

Spec == Init /\ [][Next]_vars

\* player_movement on every keyboard state: the keys are held for the whole
\* run, and the first frame runs player_movement on the spawned world.
InitKeys ==
    /\ Boot
    /\ window = InitialWindow
    /\ keyboard \in FixedKeyboards

NextKeys ==
    \/ spawn_player
    \/ spawn_enemies
    \/ spawn_stars
    \/ ApplyDeferred
    \/ BeginFrame
    \/ player_movement

SpecKeys == InitKeys /\ [][NextKeys]_vars

\* The program in an environment where the primary window may be missing:
\* from the start, or from some point between two schedule runs.
InitWindow ==
    /\ Boot
    /\ window \in {InitialWindow, NoWindow}
    /\ keyboard = AnyKeyboard

NextWindow ==
    \/ spawn_player
    \/ spawn_enemies
    \/ spawn_stars
    \/ spawn_camera
    \/ player_movement
    \/ confine_player_movement
    \/ enemy_movement
    \/ update_enemy_direction
    \/ confine_enemy_movement
    \/ enemy_hit_player
    \/ player_hit_star
    \/ ApplyDeferred
    \/ BeginFrame
    \/ CloseWindow

SpecWindow == InitWindow /\ [][NextWindow]_vars

\* ------------------------------------------------------------ properties
\* This step is the run of system s.
Runs(s) == s \notin ran /\ s \in ran'

\* This step is the run of some system (not the application of the buffers,
\* the start of a frame or a resize).
SystemStep == \E s \in StartupSystems \cup UpdateSystems : Runs(s)

\* The ids a buffer asks to despawn.
DespawnedBy(buffer) == {buffer[k].id : k \in {j \in DOMAIN buffer : buffer[j].op = "despawn"}}

\* Entity e lies within [half, dimension - half] on both axes of win.
InBounds(e, win, size) ==
    /\ XMin(size) <= e.x /\ e.x <= XMax(win, size)
    /\ YMin(size) <= e.y /\ e.y <= YMax(win, size)

\* The window is at least as large as an entity of this size.
Fits(win, size) == win.width >= size /\ win.height >= size

\* C1: the game-over signal (the printed line and the despawn request for the
\* player) is emitted at most once over a run: in the frame of the overlap only
\* for the first overlapping enemy, and never in a later frame.
C1_GameOverOnce ==
    /\ gameOver <= 1
    /\ Len(cmds["enemy_hit_player"]) <= 1

\* C2: there is never more than one live player; a player entity appears only
\* when the Startup buffers are applied; and once the game has started, a state
\* without a player is followed only by states without a player.
C2_SinglePlayer ==
    [][ /\ Cardinality(Players(world')) <= 1
        /\ (Players(world') \ Players(world) # {} => phase = "startup")
        /\ (phase # "startup" /\ Players(world) = {} => Players(world') = {}) ]_vars

\* C2 witness: a later frame is running after the player was removed.
C2_Witness ==
    /\ phase = "update" /\ frame = 2
    /\ Players(world) = {}
    /\ gameOver > 0
    /\ "enemy_hit_player" \in ran

\* C3: right after a confinement step, in a window at least as large as the
\* entity, the player (for confine_player_movement) and every enemy (for
\* confine_enemy_movement) lie within [half_size, dimension - half_size] on
\* both axes, whatever the positions before the step.
C3_ConfinedInBounds ==
    [][ /\ (Runs("confine_player_movement") /\ Fits(window, PLAYER_SIZE)
              => \A i \in Players(world') : InBounds(world'[i], window, PLAYER_SIZE))
        /\ (Runs("confine_enemy_movement") /\ Fits(window, ENEMY_SIZE)
              => \A i \in Enemies(world') : InBounds(world'[i], window, ENEMY_SIZE)) ]_vars

\* C3 witness: after a resize to a smaller window that still fits, both
\* confinement steps have run and an enemy sits on the new right-hand bound.
C3_Witness ==
    /\ resizes = 1 /\ window.width < InitialWindow.width
    /\ Fits(window, ENEMY_SIZE)
    /\ {"confine_player_movement", "confine_enemy_movement"} \subseteq ran
    /\ Players(world) # {}
    /\ \E i \in Enemies(world) : world[i].x = XMax(window, ENEMY_SIZE)

\* C4: within a frame the systems run in the fixed order movement, direction
\* update, confinement, collision checks: no confinement before the movement of
\* the same entity, no direction update after the enemy confinement, no
\* collision check before the confinements.
C4_FixedOrder ==
    /\ ("confine_player_movement" \in ran => "player_movement" \in ran)
    /\ ("update_enemy_direction" \in ran => "enemy_movement" \in ran)
    /\ ("confine_enemy_movement" \in ran => "update_enemy_direction" \in ran)
    /\ (\A c \in {"enemy_hit_player", "player_hit_star"} :
          c \in ran => {"confine_player_movement", "confine_enemy_movement"} \subseteq ran)

\* C5: once the game has started the set of live stars only shrinks, and every
\* entity that appears has a fresh id, so a removed star is never live again.
C5_StarsOnlyShrink ==
    [][ /\ (phase # "startup" => Stars(world') \subseteq Stars(world))
        /\ (\A i \in DOMAIN world' \ DOMAIN world : i >= nextId)
        /\ nextId' >= nextId ]_vars

\* C5 witness: a frame is running after a star was removed in an earlier one.
C5_Witness ==
    /\ phase = "update" /\ frame = 2
    /\ Cardinality(Stars(world)) < NUMBER_OF_STARS
    /\ starHit > 0

\* C6: in a frame without a player, the four player systems change nothing
\* (no position, no command, no printed line), and enemy_movement still moves
\* the enemies while update_enemy_direction and confine_enemy_movement still
\* apply their effect.
C6_NoPlayerNoOp ==
    [][ phase = "update" /\ Players(world) = {} =>
          /\ (\/ Runs("player_movement") \/ Runs("confine_player_movement")
              \/ Runs("enemy_hit_player") \/ Runs("player_hit_star")
                => /\ world' = world /\ cmds' = cmds
                   /\ gameOver' = gameOver /\ starHit' = starHit)
          /\ (Runs("enemy_movement") /\ dt > 0
                => \A i \in Enemies(world) :
                     world'[i].x # world[i].x \/ world'[i].y # world[i].y)
          /\ (Runs("confine_enemy_movement") /\ Fits(window, ENEMY_SIZE)
                => \A i \in Enemies(world') : InBounds(world'[i], window, ENEMY_SIZE))
          /\ (Runs("update_enemy_direction")
                => \A i \in Enemies(world) :
                     (world'[i].dx # world[i].dx) =
                       (world[i].dx # 0 /\
                        OutOfBounds(world[i].x, XMin(ENEMY_SIZE), XMax(window, ENEMY_SIZE)))) ]_vars

\* C6 witness: a frame without a player in which the player systems and the
\* enemy systems have all run.
C6_Witness ==
    /\ phase = "update" /\ Players(world) = {}
    /\ ran = UpdateSystems
    /\ cmds["enemy_hit_player"] = <<>> /\ cmds["player_hit_star"] = <<>>

\* C7: a system's run never changes the set of live entities; when a frame
\* starts no command is pending; applying the buffers removes every entity a
\* buffer asked to despawn; and a player-star check that runs while the
\* player's despawn is pending still sees the player and asks for every
\* overlapping star.
C7_DeferredDespawn ==
    [][ /\ (SystemStep => DOMAIN world' = DOMAIN world)
        /\ (phase = "idle" => cmds = NoCommands)
        /\ (phase = "update" /\ phase' = "idle"
              => \A s \in UpdateSystems : DespawnedBy(cmds[s]) \cap DOMAIN world' = {})
        /\ (Runs("player_hit_star") /\ cmds["enemy_hit_player"] # <<>>
              => /\ Players(world) # {}
                 /\ DespawnedBy(cmds'["player_hit_star"]) =
                      {i \in Stars(world) :
                         DistanceSq(world[ThePlayer(world)], world[i]) < 47 * 47}) ]_vars

\* C7 witness: in one frame the player's despawn and a star's despawn are both
\* pending, and the player is still live.
C7_Witness ==
    /\ phase = "update"
    /\ cmds["enemy_hit_player"] # <<>>
    /\ cmds["player_hit_star"] # <<>>
    /\ Players(world) # {}

\* C8: no step changes the magnitude of an enemy's direction components (so
\* its length stays what it was at spawn), and only update_enemy_direction
\* changes a direction at all.
C8_DirectionMagnitude ==
    [][ \A i \in Enemies(world) \cap Enemies(world') :
          /\ Abs(world'[i].dx) = Abs(world[i].dx)
          /\ Abs(world'[i].dy) = Abs(world[i].dy)
          /\ (world'[i].dx # world[i].dx \/ world'[i].dy # world[i].dy
                => Runs("update_enemy_direction")) ]_vars

\* C8 witness: in the second frame an enemy has been reflected on both axes.
C8_Witness ==
    /\ frame = 2
    /\ \E i \in Enemies(world) : world[i].dx < 0 /\ world[i].dy < 0

\* C9 as claimed: in a window smaller than the entity on an axis, the confined
\* coordinate on that axis is min (half_size) for every input.
C9_ClampsToMin ==
    [][ /\ (Runs("confine_player_movement") /\ window.height < PLAYER_SIZE
              => \A i \in Players(world') : world'[i].y = YMin(PLAYER_SIZE))
        /\ (Runs("confine_enemy_movement") /\ window.height < ENEMY_SIZE
              => \A i \in Enemies(world') : world'[i].y = YMin(ENEMY_SIZE)) ]_vars

\* C9 amended: in a window smaller than the entity on an axis, confinement
\* sets a coordinate below min (half_size) to min and every other coordinate
\* to max (dimension - half_size).
C9_DegenerateClamp ==
    [][ /\ (Runs("confine_player_movement") /\ window.height < PLAYER_SIZE
              => \A i \in Players(world') :
                   world'[i].y = IF world[i].y < YMin(PLAYER_SIZE)
                                 THEN YMin(PLAYER_SIZE)
                                 ELSE YMax(window, PLAYER_SIZE))
        /\ (Runs("confine_enemy_movement") /\ window.height < ENEMY_SIZE
              => \A i \in Enemies(world') :
                   world'[i].y = IF world[i].y < YMin(ENEMY_SIZE)
                                 THEN YMin(ENEMY_SIZE)
                                 ELSE YMax(window, ENEMY_SIZE)) ]_vars

\* C9 witness: in a window lower than the entity, both confinements have run
\* and left the player and an enemy on max, below min.
C9_Witness ==
    /\ window.height < PLAYER_SIZE
    /\ {"confine_player_movement", "confine_enemy_movement"} \subseteq ran
    /\ ran \cap {"player_movement", "enemy_movement"} = {}
    /\ \E i \in Players(world) : world[i].y = YMax(window, PLAYER_SIZE)
    /\ \E i \in Enemies(world) : world[i].y = YMax(window, ENEMY_SIZE)

\* C10: with a live player, player_hit_star asks to despawn exactly the stars
\* whose squared distance to the player is below 2209 (distance < 47), once
\* each and with one printed line each, and the end of that frame removes
\* exactly the stars asked for.
C10_StarsWithinRadius ==
    [][ /\ (Runs("player_hit_star") /\ HasSinglePlayer(world)
              => LET near == {i \in Stars(world) :
                                DistanceSq(world[ThePlayer(world)], world[i]) < 2209}
                     buffer == cmds'["player_hit_star"]
                 IN  /\ DespawnedBy(buffer) = near
                     /\ Len(buffer) = Cardinality(near)
                     /\ starHit' = starHit + Cardinality(near))
        /\ (phase = "update" /\ phase' = "idle"
              => Stars(world') = Stars(world) \ DespawnedBy(cmds["player_hit_star"])) ]_vars

\* C10 witness: one check has asked for several stars while a star at distance
\* exactly 47 and farther stars are left alone.
C10_Witness ==
    /\ "player_hit_star" \in ran
    /\ ran \cap {"player_movement", "confine_player_movement"} = {}
    /\ Len(cmds["player_hit_star"]) >= 2
    /\ \E i \in Stars(world) \ DespawnedBy(cmds["player_hit_star"]) :
         DistanceSq(world[ThePlayer(world)], world[i]) = 2209

\* The keys leave no net direction: on each axis either no direction is
\* pressed or both opposite directions are (primary or alternate key).
Cancels(keys) ==
    /\ Pressed(keys, "Left", "A") = Pressed(keys, "Right", "D")
    /\ Pressed(keys, "Up", "W") = Pressed(keys, "Down", "S")

\* C11: a run of player_movement with no net input (no directional key, or on
\* each axis none or both opposite directions, on primary or alternate keys)
\* leaves the player where it was for every delta time, and no run of
\* player_movement changes an enemy, a star, the set of live entities or a
\* command buffer.
C11_NoNetInputNoMove ==
    [][ Runs("player_movement") =>
          /\ (keyboard.fixed /\ Cancels(keyboard.pressed) => world' = world)
          /\ DOMAIN world' = DOMAIN world
          /\ (\A i \in DOMAIN world : world[i].kind # "player" => world'[i] = world[i])
          /\ cmds' = cmds ]_vars

\* C11 witness: player_movement has run with opposite keys held on both axes,
\* one primary and one alternate each, at the largest delta time, and the
\* player is still at the window's centre.
C11_Witness ==
    /\ "player_movement" \in ran
    /\ keyboard.fixed /\ keyboard.pressed = {"Left", "D", "W", "Down"}
    /\ dt = MaxTicks
    /\ \E i \in Players(world) :
         world[i].x = window.width \div 2 /\ world[i].y = window.height \div 2

\* C12: the three spawn systems run only in the Startup schedule, once each,
\* before the first update frame; the state Startup leaves has exactly one
\* player, at (width/2, height/2), exactly NUMBER_OF_ENEMIES enemies and
\* NUMBER_OF_STARS stars and nothing else, every enemy and star within
\* [0, width] x [0, height].
C12_StartupSpawns ==
    /\ (phase # "startup" => ran \cap StartupSystems = {})
    /\ (phase = "startup" => frame = 0 /\ world = << >>)
    /\ (phase = "idle" /\ frame = 0 =>
          /\ Cardinality(Players(world)) = 1
          /\ \A i \in Players(world) :
                world[i].x = window.width \div 2 /\ world[i].y = window.height \div 2
          /\ Cardinality(Enemies(world)) = 4
          /\ Cardinality(Stars(world)) = 10
          /\ Cardinality(DOMAIN world) = 15
          /\ \A i \in Enemies(world) \cup Stars(world) :
                /\ 0 <= world[i].x /\ world[i].x <= window.width
                /\ 0 <= world[i].y /\ world[i].y <= window.height)

\* C12 witness: Startup is over, no frame has run, and an enemy was spawned on
\* the window's corner, outside the range confinement keeps it in.
C12_Witness ==
    /\ phase = "idle" /\ frame = 0
    /\ Cardinality(Stars(world)) = NUMBER_OF_STARS
    /\ \E i \in Enemies(world) : world[i].x = 0 /\ world[i].y = 0
    /\ \E i \in Players(world) : world[i].x = 160 /\ world[i].y = 120

\* C13: enemies are never destroyed: once Startup is over the set of live
\* enemies is in every state the four enemies Startup spawned, in the frame an
\* enemy hits the player and in the frames after it too.
C13_EnemiesNeverDestroyed ==
    [][ phase # "startup" =>
          /\ Enemies(world') = Enemies(world)
          /\ Cardinality(Enemies(world')) = 4
          /\ Enemies(world') \subseteq 1 .. 15 ]_vars

\* C13 witness: the frame after the one in which an enemy hit the player is
\* over, the player is gone and the four enemies are live.
C13_Witness ==
    /\ phase = "idle" /\ frame = 2
    /\ gameOver > 0 /\ Players(world) = {}
    /\ Cardinality(Enemies(world)) = NUMBER_OF_ENEMIES

\* The operations C14 lists as needing the window.
WindowSystems ==
    {"spawn_player", "spawn_enemies", "spawn_stars", "confine_player_movement",
     "update_enemy_direction", "confine_enemy_movement"}

\* C14 as claimed: with no primary window, every run of one of the three
\* spawn systems, of the player confinement, of the enemy direction update and
\* of the enemy confinement ends in a panic, in every state, also when the
\* player has already been removed.
C14_EveryWindowSystemFails ==
    [][ \A s \in WindowSystems :
          Runs(s) /\ ~WindowExists(window) => panicked' ]_vars

\* C14 amended: with no primary window, every run of a spawn system (the
\* camera's included), of the enemy direction update and of the enemy
\* confinement ends in a panic and changes nothing else; a run of the player
\* confinement panics exactly when a player exists and is otherwise a no-op
\* that does not fail; and no schedule run completes, so the program does
\* terminate in that run.
C14_WindowAbsentFatal ==
    [][ ~WindowExists(window) =>
          /\ (\A s \in (WindowSystems \ {"confine_player_movement"}) \cup {"spawn_camera"} :
                Runs(s) => panicked' /\ world' = world /\ cmds' = cmds)
          /\ (Runs("confine_player_movement")
                => /\ panicked' = (Players(world) # {})
                   /\ world' = world /\ cmds' = cmds)
          /\ (phase # "idle" => phase' = phase) ]_vars

\* C14 witness: the window went away after the player had been removed; in the
\* next frame the player confinement has run without failing and another
\* system has then panicked.
C14_Witness ==
    /\ ~WindowExists(window)
    /\ phase = "update" /\ Players(world) = {}
    /\ "confine_player_movement" \in ran
    /\ panicked

\* C15: update_enemy_direction negates an enemy's direction x component
\* exactly when its x is strictly below 32 (half the enemy size) or strictly
\* above width - 32, and its y component likewise against the height, each
\* axis on its own; an enemy exactly on a bound is not reflected; and the step
\* changes no position and no other entity.
C15_ReflectStrictlyOutside ==
    [][ Runs("update_enemy_direction") =>
          /\ DOMAIN world' = DOMAIN world
          /\ \A i \in DOMAIN world :
                IF world[i].kind = "enemy"
                THEN /\ world'[i].dx =
                          IF world[i].x < 32 \/ world[i].x > window.width - 32
                          THEN 0 - world[i].dx ELSE world[i].dx
                     /\ world'[i].dy =
                          IF world[i].y < 32 \/ world[i].y > window.height - 32
                          THEN 0 - world[i].dy ELSE world[i].dy
                     /\ world'[i].x = world[i].x /\ world'[i].y = world[i].y
                     /\ world'[i].kind = "enemy"
                ELSE world'[i] = world[i] ]_vars

\* C15 witness: update_enemy_direction has run first in the second frame, in
\* a window made lower between the frames, on an enemy that sits exactly on
\* the lower x bound and strictly above the upper y bound: it still points out
\* of the window on x, as it did when the frame began, and has been turned
\* round on y.
C15_Witness ==
    /\ frame = 2 /\ ran = {"update_enemy_direction"}
    /\ \E i \in Enemies(world) :
         /\ world[i].x = 32 /\ world[i].dx < 0
         /\ world[i].y > window.height - 32 /\ world[i].dy > 0

\* C16: no enemy gets stuck on a wall: while the window keeps its size (at
\* least the enemy's) and delta time is positive, no enemy ends two frames in
\* a row on or beyond a bound of its range with its non-zero direction
\* component on that axis pointing out of the window.
C16_NoEnemyStuck ==
    [][ phase = "update" /\ phase' = "idle" /\ resizes = 0
        /\ Fits(window, ENEMY_SIZE) /\ dt > 0
          => outward \cap Outward(world', window) = {} ]_vars

\* C17: no entity is created after startup: once the camera exists, no step
\* adds an entity, so the number of live entities (player, enemies, stars,
\* cameras) never increases from one update frame to the next, and there is
\* exactly one camera.
C17_NoEntityAfterStartup ==
    [][ phase # "startup" /\ Cameras(world) # {} =>
          /\ DOMAIN world' \subseteq DOMAIN world
          /\ Cardinality(DOMAIN world') <= Cardinality(DOMAIN world)
          /\ Cardinality(Cameras(world')) = 1 ]_vars

====
